---- MODULE Spec2Model ----
(***************************************************************************)
(* A state-machine model of src/src/simulation.py: the network loader,     *)
(* the profile loader, the profile binder and the simulation runner.       *)
(* Each stage has its own specification (SpecLoad, SpecProfile, SpecBind,  *)
(* SpecRun); the variables of the other stages stay at their idle values.  *)
(***************************************************************************)
EXTENDS Integers, Sequences, FiniteSets, TLC

VARIABLES
    net,            \* binder: net[equipment], a sequence of rows (index i is row i+1)
    controller,     \* binder: net.controller, the registration list
    time_index,     \* binder: net["time_index"], <<>> while the key is absent
    log,            \* binder: records logged by the most recent call
    bound,          \* binder: per equipment class, the power_profiles of its latest call
    last            \* binder: the most recent call (class, outcome, what it found)

VARIABLES
    sheets,         \* profile loader: the time columns of the sheets read so far
    period,         \* profile loader: the common sampling period
    start_time,     \* profile loader: the common start time
    end_time,       \* profile loader: the common end time
    datetime_index, \* profile loader: the common grid
    ppc             \* profile loader: "reading", "done" or "raised"

VARIABLES
    workbook,       \* network loader: the sheets of the xlsx file, in workbook order
    loaded,         \* network loader: what load_net_from_xlsx returned, or that it raised
    lpc             \* network loader: "start" or "done"

VARIABLES
    output_writer,  \* runner: the logged "table.field" selectors, in logging order
    output,         \* runner: the OutputWriter's tables, key -> rows logged so far
    steps_run,      \* runner: the time steps run_timeseries has executed, in order
    results_df,     \* runner: the result tables built after the run
    output_filename,\* runner: the output name, "" when None
    errors,         \* runner: the number of log.error calls
    returned,       \* runner: the value returned
    rpc             \* runner: the position in create_output_writer / run_time_simulation

bindVars == <<net, controller, time_index, log, bound, last>>
runVars == <<output_writer, output, steps_run, results_df, output_filename, errors,
             returned, rpc>>
loadVars == <<workbook, loaded, lpc>>
profVars == <<sheets, period, start_time, end_time, datetime_index, ppc>>
vars == <<bindVars, profVars, loadVars, runVars>>

\* The profile loader before it is called.
ProfIdle ==
    /\ sheets = <<>>
    /\ period = [nat |-> FALSE, v |-> 0]
    /\ start_time = 0
    /\ end_time = 0
    /\ datetime_index = <<>>
    /\ ppc = "idle"

\* The runner before it is called.
RunIdle ==
    /\ output_writer = <<>>
    /\ output = <<>>
    /\ steps_run = <<>>
    /\ results_df = <<>>
    /\ output_filename = ""
    /\ errors = 0
    /\ returned = <<>>
    /\ rpc = "idle"

\* The network loader before it is called.
LoadIdle ==
    /\ workbook = <<>>
    /\ loaded = [raised |-> FALSE, net |-> <<>>]
    /\ lpc = "idle"

----------------------------------------------------------------------------
(* Bounds of the binder model *)
NumEq == 2          \* rows of the "load" table: 0..NumEq

Range(s) == {s[i] : i \in DOMAIN s}

EqNames == {"load", "sgen"}

None == [none |-> TRUE]

\* profile_mapping values: -1 (the default, line 43: no profile) or a profile identifier
MapVals == {-1, 0}

\* An equipment table after load_net_from_xlsx: a display name and an integer
\* profile_mapping per row; the pandas index of row i is i-1.
Tables(eq, n) ==
    UNION {{[i \in 1..k |-> [name |-> <<eq, i - 1>>, profile_mapping |-> m[i]]] :
              m \in [1..k -> MapVals]} : k \in 0..n}

\* The networks bound: any "load" table of up to NumEq rows, one generator on profile 0.
Nets == {[load |-> l, sgen |-> <<[name |-> <<"sgen", 0>>, profile_mapping |-> 0]>>] :
            l \in Tables("load", NumEq)}

\* Time labels of a profile table on a regular grid, as the profile loader builds it.
Regular(n, d) == [i \in 1..n |-> (i - 1) * d]


\* The series of profile identifier X: a value per timestamp, distinct per column.
Series(X, idx) == [i \in 1..Len(idx) |-> 100 * (X + 2) + idx[i]]

MkProfile(idx, cols) == [index |-> idx, data |-> [X \in cols |-> Series(X, idx)]]

\* The profile tables bound: two grids of the same length and different labels, one
\* longer grid; columns that are mapping keys (0, -1) or not (1).
Profiles == {MkProfile(Regular(2, 1), {0}),
             MkProfile(Regular(2, 2), {-1, 1}),
             MkProfile(Regular(3, 1), {0})}

\* power_profiles: a dict in insertion order, variable -> table or None; the profile
\* loader inserts "p_mw" before "q_mvar" (lines 149-152).
PowerProfiles ==
    {<<>>}
    \cup {<<[variable |-> "p_mw", profile |-> p], [variable |-> "q_mvar", profile |-> q]>> :
            p \in Profiles \cup {None}, q \in Profiles \cup {None}}

----------------------------------------------------------------------------
(* apply_power_profile *)

\* net[equipment].index
EqIndex(tbl) == {i - 1 : i \in DOMAIN tbl}

\* The ascending sequence of the integers of S.
RECURSIVE SortedSeq(_)
SortedSeq(S) ==
    IF S = {} THEN <<>>
    ELSE LET m == CHOOSE x \in S : \A y \in S : x <= y
         IN <<m>> \o SortedSeq(S \ {m})

\* lines 181-184: reset_index().groupby("profile_mapping")["index"].apply(list).to_dict()
ProfileMapping(tbl) ==
    [id \in {tbl[i].profile_mapping : i \in DOMAIN tbl} |->
        SortedSeq({i - 1 : i \in {j \in DOMAIN tbl : tbl[j].profile_mapping = id}})]

\* A faulty variant of DropOldController, for comparison: the whole registration list is emptied.
DropOldController_All(ctrl, equipment) == <<>>

\* lines 177-179: drop the controllers whose element is `equipment`, renumber the rest
DropOldController(ctrl, equipment) ==
    SelectSeq(ctrl, LAMBDA c : c.element # equipment)

\* A faulty variant of Broadcast, for comparison: only the first equipment index of the list gets the series.
Broadcast_FirstOnly(mapped, eq_list, series) ==
    [e \in DOMAIN mapped \cup {Head(eq_list)} |->
        IF e = Head(eq_list) THEN series ELSE mapped[e]]

\* line 197: mapped_profile[eq_list] = list(zip(*[list(profile[profile_id].values)] * len(eq_list)))
Broadcast(mapped, eq_list, series) ==
    [e \in DOMAIN mapped \cup Range(eq_list) |->
        IF e \in Range(eq_list) THEN series ELSE mapped[e]]

\* lines 194-197: the loop over profile_mapping.items(), keys in groupby (ascending) order
RECURSIVE MapLoop(_, _, _, _)
MapLoop(keys, mapping, profile, mapped) ==
    IF keys = <<>> THEN mapped
    ELSE LET profile_id == Head(keys)
         IN MapLoop(Tail(keys), mapping, profile,
                IF profile_id \in DOMAIN profile.data
                THEN Broadcast(mapped, mapping[profile_id], profile.data[profile_id])
                ELSE mapped)

\* lines 193-199: the bound table, equipment index -> series
MappedProfile(tbl, profile) ==
    LET mapping == ProfileMapping(tbl)
    IN IF DOMAIN mapping # {}
       THEN MapLoop(SortedSeq(DOMAIN mapping), mapping, profile, <<>>)
       ELSE [e \in EqIndex(tbl) \cap DOMAIN profile.data |-> profile.data[e]]

\* lines 200-203: the warning for the equipment without a column, if any
UnmappedWarning(tbl, mapped, variable) ==
    LET unmapped == SortedSeq(EqIndex(tbl) \ DOMAIN mapped)
    IN IF unmapped = <<>> THEN <<>>
       ELSE <<[level |-> "warning",
               names |-> [k \in DOMAIN unmapped |-> tbl[unmapped[k] + 1].name],
               variable |-> variable]>>

\* lines 188-192: "ok", "error" (logged) or "raise" (pandas refuses to compare two
\* frames whose row labels differ: ValueError)
TimeCheck(tidx, profile) ==
    IF tidx = <<>> THEN "ok"
    ELSE IF Len(tidx) # Len(profile.index) THEN "raise"
    ELSE IF tidx # profile.index THEN "error"
    ELSE "ok"

\* lines 206-208: control.ConstControl(net, element, element_index, variable, data_source)
ConstControl(equipment, variable, mapped) ==
    [element |-> equipment, variable |-> variable,
     element_index |-> DOMAIN mapped, data |-> mapped]

\* lines 185-208: the loop over power_profiles.items(); st is the network so far
RECURSIVE BindLoop(_, _, _, _)
BindLoop(equipment, tbl, items, st) ==
    IF items = <<>> \/ st.raised THEN st
    ELSE LET variable == Head(items).variable
             profile == Head(items).profile
         IN IF profile = None THEN BindLoop(equipment, tbl, Tail(items), st)
            ELSE LET chk == TimeCheck(st.time_index, profile)
                     mapped == MappedProfile(tbl, profile)
                 IN IF chk = "raise"
                    THEN [st EXCEPT !.raised = TRUE]
                    ELSE BindLoop(equipment, tbl, Tail(items),
                           [controller |-> Append(st.controller,
                                                  ConstControl(equipment, variable, mapped)),
                            time_index |-> IF st.time_index = <<>> THEN profile.index
                                           ELSE st.time_index,
                            log |-> st.log
                                    \o (IF chk = "error"
                                        THEN <<[level |-> "error", names |-> <<>>,
                                                variable |-> variable]>>
                                        ELSE <<>>)
                                    \o UnmappedWarning(tbl, mapped, variable),
                            raised |-> FALSE])

\* lines 156-208
apply_power_profile(equipment, power_profiles) ==
    LET st == BindLoop(equipment, net[equipment], power_profiles,
                       [controller |-> DropOldController(controller, equipment),
                        time_index |-> time_index, log |-> <<>>, raised |-> FALSE])
    IN /\ controller' = st.controller
       /\ time_index' = st.time_index
       /\ log' = st.log
       /\ bound' = [bound EXCEPT ![equipment] = power_profiles]
       /\ last' = [equipment |-> equipment, raised |-> st.raised,
                   prior_index |-> time_index,
                   dropped |-> Len(controller) - Len(DropOldController(controller, equipment))]
       /\ UNCHANGED <<net, profVars, loadVars, runVars>>

ApplyPowerProfile ==
    \E equipment \in EqNames, power_profiles \in PowerProfiles :
        apply_power_profile(equipment, power_profiles)

BindInit ==
    /\ ProfIdle
    /\ LoadIdle
    /\ RunIdle
    /\ net \in Nets
    /\ controller = <<>>
    /\ time_index = <<>>
    /\ log = <<>>
    /\ bound = [eq \in EqNames |-> <<>>]
    /\ last = [equipment |-> "", raised |-> FALSE, prior_index |-> <<>>, dropped |-> 0]

BindIdle ==
    /\ net = [load |-> <<>>, sgen |-> <<>>]
    /\ controller = <<>>
    /\ time_index = <<>>
    /\ log = <<>>
    /\ bound = [eq \in EqNames |-> <<>>]
    /\ last = [equipment |-> "", raised |-> FALSE, prior_index |-> <<>>, dropped |-> 0]

BindNext == ApplyPowerProfile

SpecBind == BindInit /\ [][BindNext]_vars

----------------------------------------------------------------------------
(* load_power_profile_form_xlsx, lines 95-129: the common period, start, end, grid *)

\* Bounds of the profile-loader model
DayLen == 5         \* time-of-day ticks in one day: 0..DayLen-1 (DayLen-1 is 23:59:59)
MaxSamples == 3     \* rows of a profile sheet: 0..MaxSamples
MaxSheets == 2      \* sheets of the workbook

\* A timedelta, or pandas' NaT.
TD(v) == [nat |-> FALSE, v |-> v]
NaT == [nat |-> TRUE, v |-> 0]

\* a < b on timedeltas: every comparison with NaT is False.
Lt(a, b) == ~a.nat /\ ~b.nat /\ a.v < b.v

\* The time columns of the sheets: strictly increasing times of day, possibly none.
SheetTimes ==
    UNION {{t \in [1..n -> 0..(DayLen - 1)] : \A i \in 1..(n - 1) : t[i] < t[i + 1]} :
             n \in 0..MaxSamples}

\* A faulty variant of PyMin, for comparison: the second argument is returned unless the first is smaller.
PyMin_KeepsSecond(a, b) == IF Lt(a, b) THEN a ELSE b

\* line 114: the builtin min(a, b) returns a unless b < a
PyMin(a, b) == IF Lt(b, a) THEN b ELSE a

\* line 114: date_time.diff().min(), NaT when the sheet has a single sample
DiffMin(times) ==
    IF Len(times) < 2 THEN NaT
    ELSE LET gaps == {times[i + 1] - times[i] : i \in 1..(Len(times) - 1)}
         IN TD(CHOOSE g \in gaps : \A h \in gaps : g <= h)

\* lines 120-123: pd.date_range(start, end, freq): start + k * freq up to end
DateRange(start, end, freq) ==
    IF start > end THEN <<>>
    ELSE [k \in 1..((end - start) \div freq + 1) |-> start + (k - 1) * freq]

\* lines 103-116: one iteration of the loop over the sheets
ReadSheet ==
    /\ ppc = "reading"
    /\ Len(sheets) < MaxSheets
    /\ \E times \in SheetTimes :
        /\ sheets' = Append(sheets, times)
        /\ IF times # <<>>
           THEN /\ period' = PyMin(period, DiffMin(times))
                /\ start_time' = (IF times[1] < start_time THEN times[1] ELSE start_time)
                /\ end_time' = (IF times[Len(times)] > end_time THEN times[Len(times)]
                                ELSE end_time)
           ELSE UNCHANGED <<period, start_time, end_time>>
    /\ UNCHANGED <<datetime_index, ppc, bindVars, loadVars, runVars>>

\* lines 119-129: the common grid; a NaT or zero frequency makes date_range raise
BuildGrid ==
    /\ ppc = "reading"
    /\ IF period.nat \/ period.v <= 0
       THEN ppc' = "raised" /\ UNCHANGED datetime_index
       ELSE /\ datetime_index' = DateRange(start_time, end_time, period.v)
            /\ ppc' = "done"
    /\ UNCHANGED <<sheets, period, start_time, end_time, bindVars, loadVars, runVars>>

\* lines 99-101
ProfInit ==
    /\ BindIdle
    /\ LoadIdle
    /\ RunIdle
    /\ sheets = <<>>
    /\ period = TD(DayLen)
    /\ end_time = 0
    /\ start_time = DayLen - 1
    /\ datetime_index = <<>>
    /\ ppc = "reading"

ProfNext == ReadSheet \/ BuildGrid

SpecProfile == ProfInit /\ [][ProfNext]_vars

----------------------------------------------------------------------------
(* load_net_from_xlsx, lines 19-78 *)

\* Bound of the network-loader model
MaxRows == 1        \* rows of a network sheet: 0..MaxRows

\* Cells as pandas reads them, and as the loader leaves them.
NaN == [k |-> "nan"]
Num(v) == [k |-> "num", v |-> v]
Str(s) == [k |-> "str", s |-> s]
Bool(b) == [k |-> "bool", v |-> b]
Int64(v) == [k |-> "int64", v |-> v]
Coords(l) == [k |-> "list", v |-> l]
NoneCell == [k |-> "none"]

\* lines 37-44
default_values ==
    [in_service |-> Bool(TRUE), g_us_per_km |-> Num(0), g0_us_per_km |-> Num(0),
     r0_ohm_per_km |-> Num(0), x0_ohm_per_km |-> Num(0), c0_nf_per_km |-> Num(0),
     parallel |-> Num(1), df |-> Num(1), p_mw |-> Num(0), q_mvar |-> Num(0),
     const_z_percent |-> Num(0), const_i_percent |-> Num(0), scaling |-> Num(1),
     vk0_percent |-> Num(0), vkr0_percent |-> Num(0), mag0_percent |-> Num(0),
     mag0_rx |-> Num(0), si0_hv_partial |-> Num(0), shift_degree |-> Num(0),
     tap_step_percent |-> Num(1), tap_phase_shifter |-> Bool(FALSE),
     tap_step_degree |-> Num(0), vm_pu |-> Num(1), va_degree |-> Num(0),
     slack_weight |-> Num(1), tap_pos |-> Num(0), tap_neutral |-> Num(0),
     tap_min |-> Num(0), tap_max |-> Num(1), profile_mapping |-> Num(-1),
     current_source |-> Bool(TRUE)]

\* lines 46-47
int_column == {"bus", "parallel", "from_bus", "to_bus", "element", "hv_bus", "lv_bus",
               "tap_pos", "tap_neutral", "tap_min", "tap_max", "profile_mapping"}

\* line 48
bool_column == {"current_source", "in_service"}

\* Coordinate strings, one character per element.
GoodCoords == <<"[", "[", "1", ",", "2", "]", ",", " ", "[", "3", ",", "4", "]", "]">>
BadTokenCoords == <<"[", "[", "1", ",", "x", "]", "]">>
OpenCoords == <<"[", "[", "1", ",", "2">>

\* The cells a column of a sheet may hold.
CellsOf(col) ==
    CASE col = "coords" -> {NaN, Str(GoodCoords), Str(BadTokenCoords), Str(OpenCoords)}
      [] col = "type" -> {NaN, Str("abc")}
      [] col = "bus" -> {NaN, Num(1), Str("abc")}
      [] OTHER -> {NaN, Num(0), Str("abc")}

\* The columns a sheet of each equipment class may hold besides "idx".
ColumnsOf(eq_name) ==
    CASE eq_name = "bus" -> {"in_service", "type"}
      [] eq_name = "load" -> {"bus", "profile_mapping"}
      [] OTHER -> {"coords"}

SheetNames == {"bus", "load", "line_geodata"}

\* A sheet: its name, whether it has the "idx" helper column, the other columns
\* present, its rows (column -> cell).
SheetsOf(eq_name) ==
    UNION {{[name |-> eq_name, idx |-> has_idx, cols |-> cs, rows |-> rs] :
              has_idx \in BOOLEAN,
              rs \in UNION {[1..n -> {r \in [cs -> UNION {CellsOf(c) : c \in cs}] :
                                        \A c \in cs : r[c] \in CellsOf(c)}] :
                            n \in 0..MaxRows}} :
             cs \in SUBSET ColumnsOf(eq_name)}

\* The workbooks loaded: one sheet, or two sheets of different names in either order.
AllSheets == UNION {SheetsOf(n) : n \in SheetNames}

Workbooks ==
    {<<sh>> : sh \in AllSheets}
    \cup {w \in {<<a, b>> : a \in AllSheets, b \in AllSheets} : w[1].name # w[2].name}

\* line 54: dropna(how="all"); the rows kept, with the row numbers they had
DropNa(sheet) ==
    LET keep == {i \in DOMAIN sheet.rows : \E c \in sheet.cols : sheet.rows[i][c] # NaN}
        idx == SortedSeq(keep)
    IN [cols |-> sheet.cols, index |-> idx,
        rows |-> [k \in DOMAIN idx |-> sheet.rows[idx[k]]]]

\* A faulty variant of FillNa, for comparison: every empty cell of a defaulted column is filled with 0.
FillNa_Zero(df, values) ==
    [df EXCEPT !.rows = [k \in DOMAIN df.rows |->
        [c \in df.cols |->
            IF c \in DOMAIN values /\ df.rows[k][c] = NaN THEN Num(0)
            ELSE df.rows[k][c]]]]

\* lines 57, 60, 62: fillna(value=values): NaN filled in the columns that exist
FillNa(df, values) ==
    [df EXCEPT !.rows = [k \in DOMAIN df.rows |->
        [c \in df.cols |->
            IF c \in DOMAIN values /\ df.rows[k][c] = NaN THEN values[c]
            ELSE df.rows[k][c]]]]

StartsWith(s, pat) == Len(s) >= Len(pat) /\ SubSeq(s, 1, Len(pat)) = pat

\* str.replace(pat, "")
RECURSIVE Remove(_, _)
Remove(s, pat) ==
    IF s = <<>> THEN <<>>
    ELSE IF StartsWith(s, pat) THEN Remove(SubSeq(s, Len(pat) + 1, Len(s)), pat)
    ELSE <<Head(s)>> \o Remove(Tail(s), pat)

\* str.split(sep): the pieces between the separators, cur being the piece under way
RECURSIVE SplitFrom(_, _, _)
SplitFrom(s, sep, cur) ==
    IF s = <<>> THEN <<cur>>
    ELSE IF StartsWith(s, sep)
         THEN <<cur>> \o SplitFrom(SubSeq(s, Len(sep) + 1, Len(s)), sep, <<>>)
    ELSE SplitFrom(Tail(s), sep, Append(cur, Head(s)))

Split(s, sep) == SplitFrom(s, sep, <<>>)

DigitValue == [d \in {"1", "2", "3", "4"} |-> CASE d = "1" -> 1 [] d = "2" -> 2
                                                [] d = "3" -> 3 [] OTHER -> 4]

\* str.strip() of blanks
RECURSIVE Strip(_)
Strip(z) ==
    IF z # <<>> /\ Head(z) = " " THEN Strip(Tail(z))
    ELSE IF z # <<>> /\ z[Len(z)] = " " THEN Strip(SubSeq(z, 1, Len(z) - 1))
    ELSE z

RECURSIVE Decimal(_)
Decimal(z) == IF z = <<>> THEN 0 ELSE 10 * Decimal(SubSeq(z, 1, Len(z) - 1)) + DigitValue[z[Len(z)]]

\* float(z): blanks around the number are ignored; anything but digits is a ValueError
Float(z) ==
    LET t == Strip(z)
    IN IF t # <<>> /\ \A i \in DOMAIN t : t[i] \in DOMAIN DigitValue
       THEN [ok |-> TRUE, v |-> Decimal(t)]
       ELSE [ok |-> FALSE, v |-> 0]

\* lines 66-67: the lambda applied to one coords cell
ParseCoords(x) ==
    IF x.k # "str" THEN [ok |-> FALSE, cell |-> x]
    ELSE LET parts == Split(Remove(Remove(x.s, <<"[", "[">>), <<"]", "]">>),
                            <<"]", ",", " ", "[">>)
             toks == [i \in DOMAIN parts |-> Split(parts[i], <<",">>)]
         IN IF \A i \in DOMAIN toks : \A j \in DOMAIN toks[i] : Float(toks[i][j]).ok
            THEN [ok |-> TRUE,
                  cell |-> Coords([i \in DOMAIN toks |->
                                     [j \in DOMAIN toks[i] |-> Float(toks[i][j]).v]])]
            ELSE [ok |-> FALSE, cell |-> x]

\* A faulty variant of AsInt64, for comparison: a value that is no number becomes 0 instead of an error.
AsInt64_Coerce(x) ==
    CASE x.k = "num" -> [ok |-> TRUE, cell |-> Int64(x.v)]
      [] x.k = "bool" -> [ok |-> TRUE, cell |-> Int64(IF x.v THEN 1 ELSE 0)]
      [] OTHER -> [ok |-> TRUE, cell |-> Int64(0)]

\* line 70: astype('int64') of one cell; NaN and text that is no integer raise
AsInt64(x) ==
    CASE x.k = "num" -> [ok |-> TRUE, cell |-> Int64(x.v)]
      [] x.k = "bool" -> [ok |-> TRUE, cell |-> Int64(IF x.v THEN 1 ELSE 0)]
      [] OTHER -> [ok |-> FALSE, cell |-> x]

\* line 73: astype(bool) of one cell: Python truthiness, which never raises
AsBool(x) ==
    CASE x.k = "num" -> Bool(x.v # 0)
      [] x.k = "bool" -> x
      [] x.k = "str" -> Bool(x.s # "")
      [] OTHER -> Bool(TRUE)

\* line 75: replace(np.nan, None)
NanToNone(x) == IF x = NaN THEN NoneCell ELSE x

\* lines 54-77: one sheet; skipped, loaded (ok, df) or an exception (not ok);
\* drop(columns="idx") raises a KeyError on a sheet without that column
LoadSheet(sheet) ==
    LET d0 == DropNa(sheet)
    IN IF ~sheet.idx THEN [skip |-> FALSE, ok |-> FALSE, df |-> d0]
       ELSE IF d0.cols = {} \/ d0.rows = <<>> THEN [skip |-> TRUE, ok |-> TRUE, df |-> d0]
       ELSE
       LET d1 == FillNa(d0, default_values)
           d2 == IF sheet.name = "bus" THEN FillNa(d1, [type |-> Str("b")])
                 ELSE IF sheet.name = "load" THEN FillNa(d1, [type |-> Str("wye")])
                 ELSE d1
           geo == sheet.name = "line_geodata"
           geoOk == geo => /\ "coords" \in d2.cols
                           /\ \A k \in DOMAIN d2.rows : ParseCoords(d2.rows[k].coords).ok
           d3 == IF geo /\ geoOk
                 THEN [d2 EXCEPT !.rows = [k \in DOMAIN d2.rows |->
                          [d2.rows[k] EXCEPT !.coords = ParseCoords(d2.rows[k].coords).cell]]]
                 ELSE d2
           ints == d3.cols \cap int_column
           intOk == \A c \in ints : \A k \in DOMAIN d3.rows : AsInt64(d3.rows[k][c]).ok
           d4 == [d3 EXCEPT !.rows = [k \in DOMAIN d3.rows |->
                     [c \in d3.cols |->
                         IF c \in int_column THEN AsInt64(d3.rows[k][c]).cell
                         ELSE IF c \in bool_column THEN AsBool(d3.rows[k][c])
                         ELSE NanToNone(d3.rows[k][c])]]]
       IN [skip |-> FALSE, ok |-> geoOk /\ intOk, df |-> d4]

\* lines 50-78: the loop over the sheets; an exception ends the load with no network
RECURSIVE LoadLoop(_, _)
LoadLoop(wb, acc) ==
    IF wb = <<>> THEN [raised |-> FALSE, net |-> acc]
    ELSE LET r == LoadSheet(Head(wb))
         IN IF ~r.ok THEN [raised |-> TRUE, net |-> <<>>]
            ELSE LoadLoop(Tail(wb),
                          IF r.skip THEN acc
                          ELSE [n \in DOMAIN acc \cup {Head(wb).name} |->
                                   IF n = Head(wb).name THEN r.df ELSE acc[n]])

load_net_from_xlsx ==
    /\ lpc = "start"
    /\ loaded' = LoadLoop(workbook, <<>>)
    /\ lpc' = "done"
    /\ UNCHANGED <<workbook, bindVars, profVars, runVars>>

LoadInit ==
    /\ BindIdle
    /\ ProfIdle
    /\ RunIdle
    /\ workbook \in Workbooks
    /\ loaded = [raised |-> FALSE, net |-> <<>>]
    /\ lpc = "start"

LoadNext == load_net_from_xlsx

SpecLoad == LoadInit /\ [][LoadNext]_vars

----------------------------------------------------------------------------
(* create_output_writer and run_time_simulation, lines 211-280 *)

\* Bound of the runner model
MaxSteps == 3       \* timestamps of the common time index: 1..MaxSteps

\* The values of add_results: None, one selector, a list of selectors.
AddResults == {<<"None">>, <<"str", "res_load.p_mw">>,
               <<"list", <<"res_load.p_mw", "res_sgen.p_mw">>>>}

\* lines 224-229
ResultsToLog(add_results) ==
    IF add_results[1] = "list" THEN add_results[2] \o <<"res_trafo.loading_percent">>
    ELSE IF add_results[1] = "str" THEN <<add_results[2], "res_trafo.loading_percent">>
    ELSE <<"res_trafo.loading_percent">>

\* line 231: OutputWriter(net) logs the two defaults named in the docstring (line 215)
DefaultLogged == <<"res_bus.vm_pu", "res_line.loading_percent">>

\* lines 211-234
create_output_writer ==
    /\ rpc = "prepared"
    /\ \E add_results \in AddResults :
           output_writer' = DefaultLogged \o ResultsToLog(add_results)
    /\ rpc' = "ready"
    /\ UNCHANGED <<output, steps_run, results_df, output_filename, errors, returned,
                   bindVars, profVars, loadVars>>

\* A faulty variant of TimeSteps, for comparison: the last time step is left out.
TimeSteps_DropLast(tidx) == [i \in 1..(Len(tidx) - 1) |-> i - 1]

\* line 257: time_steps=range(net["time_index"].shape[0])
TimeSteps(tidx) == [i \in 1..Len(tidx) |-> i - 1]

\* line 257, on entry: the OutputWriter's tables are empty, "Parameters" included
StartRun ==
    /\ rpc = "ready"
    /\ \E name \in {"", "results"} : output_filename' = name
    /\ output' = [key \in Range(output_writer) \cup {"Parameters"} |-> <<>>]
    /\ steps_run' = <<>>
    /\ rpc' = "stepping"
    /\ UNCHANGED <<output_writer, results_df, errors, returned, bindVars, profVars, loadVars>>

\* line 257: one time step of run_timeseries: the controllers are evaluated, the
\* network is solved, and one row is logged per logged variable
RunStep ==
    /\ rpc = "stepping"
    /\ Len(steps_run) < Len(TimeSteps(time_index))
    /\ LET t == TimeSteps(time_index)[Len(steps_run) + 1]
       IN /\ steps_run' = Append(steps_run, t)
          /\ output' = [key \in DOMAIN output |->
                           IF key = "Parameters" THEN output[key]
                           ELSE Append(output[key], t)]
    /\ UNCHANGED <<output_writer, results_df, output_filename, errors, returned, rpc,
                   bindVars, profVars, loadVars>>

\* line 261: result.set_index(net["time_index"].Time); a length mismatch is a ValueError
SetIndex(result, tidx) ==
    [ok |-> Len(result) = Len(tidx), index |-> tidx, rows |-> result]

\* lines 258-264: the result tables, once every time step has run
Harvest ==
    /\ rpc = "stepping"
    /\ Len(steps_run) = Len(TimeSteps(time_index))
    /\ LET keys == DOMAIN output \ {"Parameters"}
       IN IF \A key \in keys : SetIndex(output[key], time_index).ok
          THEN /\ results_df' = [key \in keys |->
                                    [index |-> SetIndex(output[key], time_index).index,
                                     rows |-> SetIndex(output[key], time_index).rows]]
               /\ rpc' = (IF output_filename # "" THEN "makedirs" ELSE "return")
          ELSE /\ rpc' = "raised"
               /\ UNCHANGED results_df
    /\ UNCHANGED <<output_writer, output, steps_run, output_filename, errors, returned,
                   bindVars, profVars, loadVars>>

\* A faulty variant of PersistFailure, for comparison: the exception is not caught.
PersistFailure_Raise(n) == [errors |-> n, rpc |-> "raised"]

\* lines 274-279: except (Exception,): one log.error, then on to the return
PersistFailure(n) == [errors |-> n + 1, rpc |-> "return"]

\* a step of the try block: it succeeds and goes on to `next`, or it fails
PersistStep(at, next) ==
    /\ rpc = at
    /\ \E fails \in BOOLEAN :
           IF fails
           THEN errors' = PersistFailure(errors).errors /\ rpc' = PersistFailure(errors).rpc
           ELSE errors' = errors /\ rpc' = next
    /\ UNCHANGED <<output_writer, output, steps_run, results_df, output_filename, returned,
                   bindVars, profVars, loadVars>>

\* lines 269-270: os.path.exists / os.makedirs
MakeDirs == PersistStep("makedirs", "open")

\* line 271: pd.ExcelWriter(output_file_path)
OpenWriter == PersistStep("open", "write")

\* lines 272-273: to_excel of every result table
WriteSheets == PersistStep("write", "return")

\* line 280
Return ==
    /\ rpc = "return"
    /\ returned' = results_df
    /\ rpc' = "returned"
    /\ UNCHANGED <<output_writer, output, steps_run, results_df, output_filename, errors,
                   bindVars, profVars, loadVars>>

\* The network after the binder established its common time index.
RunInit ==
    /\ ProfIdle
    /\ LoadIdle
    /\ net = [load |-> <<>>, sgen |-> <<>>]
    /\ controller = <<>>
    /\ time_index \in {Regular(n, d) : n \in 1..MaxSteps, d \in {1, 2}}
    /\ log = <<>>
    /\ bound = [eq \in EqNames |-> <<>>]
    /\ last = [equipment |-> "", raised |-> FALSE, prior_index |-> <<>>, dropped |-> 0]
    /\ output_writer = <<>>
    /\ output = <<>>
    /\ steps_run = <<>>
    /\ results_df = <<>>
    /\ output_filename = ""
    /\ errors = 0
    /\ returned = <<>>
    /\ rpc = "prepared"

RunNext ==
    \/ create_output_writer
    \/ StartRun
    \/ RunStep
    \/ Harvest
    \/ MakeDirs
    \/ OpenWriter
    \/ WriteSheets
    \/ Return

SpecRun == RunInit /\ [][RunNext]_vars

----------------------------------------------------------------------------
(* Properties of the binder, checked under SpecBind *)

\* The registrations of class C, in registration order.
Regs(ctrl, C) == SelectSeq(ctrl, LAMBDA c : c.element = C)

\* The entries of a power_profiles dict whose table is not None.
NonNone(power_profiles) == SelectSeq(power_profiles, LAMBDA it : it.profile # None)

\* C1: after any sequence of calls, the registrations of each class C are exactly
\* those of the most recent call for C, one per non-None variable of that call (so
\* binding twice leaves as many registrations as binding once).
C1_OneRegistrationPerVariable ==
    \A C \in EqNames :
        LET regs == Regs(controller, C)
            want == NonNone(bound[C])
        IN /\ Len(regs) = Len(want)
           /\ \A i \in DOMAIN regs : regs[i].variable = want[i].variable

\* The time index a table of the most recent call is compared with: the one
\* established before the call, or else the one its first table establishes.
ReferenceIndex ==
    LET pp == NonNone(bound[last.equipment])
    IN IF last.prior_index # <<>> THEN last.prior_index
       ELSE IF pp # <<>> THEN pp[1].profile.index ELSE <<>>

\* C2: every table of a call whose time labels differ from the common time index
\* (a different number of timestamps included) is logged as an error, the call does
\* not raise, and the table's controller is registered.
C2_MismatchLoggedNotRaised ==
    last.equipment \in EqNames =>
        \A it \in Range(NonNone(bound[last.equipment])) :
            it.profile.index # ReferenceIndex =>
                /\ ~last.raised
                /\ \E k \in DOMAIN log :
                       log[k].level = "error" /\ log[k].variable = it.variable
                /\ \E c \in Range(Regs(controller, last.equipment)) :
                       c.variable = it.variable

\* C3: in every bound table, each equipment index mapped to a profile identifier X
\* that is both a mapping key and a column of the source table has a column equal to
\* the source column X at every timestamp, and there are no other columns.
C3_BroadcastCorrect ==
    \A C \in EqNames :
        \A c \in Range(Regs(controller, C)) :
            \A it \in Range(NonNone(bound[C])) :
                it.variable = c.variable =>
                    LET tbl == net[C]
                        src == it.profile.data
                        shared == {X \in DOMAIN src :
                                     \E i \in DOMAIN tbl : tbl[i].profile_mapping = X}
                    IN /\ \A X \in shared : \A i \in DOMAIN tbl :
                              tbl[i].profile_mapping = X =>
                                  /\ (i - 1) \in DOMAIN c.data
                                  /\ c.data[i - 1] = src[X]
                       /\ DOMAIN c.data =
                              {i - 1 : i \in {j \in DOMAIN tbl :
                                                tbl[j].profile_mapping \in shared}}

\* Witness of C3: a bound table in which two equipment indices received a column.
C3_Witness ==
    \E k \in DOMAIN controller : {0, 1} \subseteq DOMAIN controller[k].data

\* C4, for a call that binds one table and returns: an equipment index whose
\* profile_mapping is -1 has no column in the bound table, whatever the table's column
\* labels, and the call logs exactly one warning naming it.
C4_UnassignedNoColumnOneWarning ==
    (/\ last.equipment \in EqNames
     /\ ~last.raised
     /\ Len(NonNone(bound[last.equipment])) = 1) =>
        LET tbl == net[last.equipment]
        IN \A i \in DOMAIN tbl :
               tbl[i].profile_mapping = -1 =>
                   /\ \A c \in Range(Regs(controller, last.equipment)) :
                          (i - 1) \notin DOMAIN c.data
                   /\ Cardinality({k \in DOMAIN log :
                                     /\ log[k].level = "warning"
                                     /\ tbl[i].name \in Range(log[k].names)}) = 1

\* C10: a call for class C keeps every registration of another class, in the same
\* relative order, and leaves an established common time index unchanged.
C10_RebindFrame ==
    [][ last'.equipment \in EqNames =>
            /\ \A D \in EqNames \ {last'.equipment} :
                   Regs(controller', D) = Regs(controller, D)
            /\ time_index # <<>> => time_index' = time_index ]_vars

\* Witness of C10: a call for "load" removed registrations while "sgen" ones exist.
C10_Witness ==
    /\ last.equipment = "load"
    /\ last.dropped > 0
    /\ Regs(controller, "sgen") # <<>>
    /\ time_index # <<>>

----------------------------------------------------------------------------
(* Properties of the profile loader, checked under SpecProfile *)

NonEmptySheets == {k \in DOMAIN sheets : sheets[k] # <<>>}

\* Every inter-sample gap observed in any sheet.
AllGaps ==
    UNION {{sheets[k][i + 1] - sheets[k][i] : i \in 1..(Len(sheets[k]) - 1)} :
             k \in DOMAIN sheets}

MinOf(S) == CHOOSE x \in S : \A y \in S : x <= y
MaxOf(S) == CHOOSE x \in S : \A y \in S : x >= y

EarliestFirst == MinOf({sheets[k][1] : k \in NonEmptySheets})
LatestLast == MaxOf({sheets[k][Len(sheets[k])] : k \in NonEmptySheets})

\* The period part of C9: the period is the smallest gap of any sheet, in any sheet
\* order; single-sample sheets constrain nothing (with no gap at all it stays one day).
PeriodIsMinGap ==
    period = (IF AllGaps = {} THEN TD(DayLen) ELSE TD(MinOf(AllGaps)))

\* C9: the common period is the minimum inter-sample gap over all non-empty sheets,
\* single-sample sheets contributing nothing, and the common grid starts at the
\* earliest first-sample time and ends at the latest last-sample time.
C9_GridEndsAtLatestSample ==
    (ppc = "done" /\ NonEmptySheets # {}) =>
        /\ PeriodIsMinGap
        /\ datetime_index # <<>>
        /\ datetime_index[1] = EarliestFirst
        /\ datetime_index[Len(datetime_index)] = LatestLast

\* C9 as amended: the period is as claimed, the common start and end times are the
\* earliest first-sample and the latest last-sample time, the grid starts at the
\* earliest first-sample time, advances by the period, and its last point is the last
\* such point not after the latest last-sample time.
C9_GridWithinLatestSample ==
    /\ ppc # "raised"
    /\ PeriodIsMinGap
    /\ NonEmptySheets # {} => start_time = EarliestFirst /\ end_time = LatestLast
    /\ (ppc = "done" /\ NonEmptySheets # {}) =>
        /\ datetime_index # <<>>
        /\ datetime_index[1] = EarliestFirst
        /\ \A k \in 1..(Len(datetime_index) - 1) :
               datetime_index[k + 1] = datetime_index[k] + period.v
        /\ datetime_index[Len(datetime_index)] <= LatestLast
        /\ LatestLast < datetime_index[Len(datetime_index)] + period.v

\* Witness of C9: a finished load with a multi-sample sheet followed by a
\* single-sample sheet, whose grid stops before the latest sample.
C9_Witness ==
    /\ ppc = "done"
    /\ Len(sheets) = 2
    /\ Len(sheets[1]) > 1
    /\ Len(sheets[2]) = 1
    /\ datetime_index # <<>>
    /\ datetime_index[Len(datetime_index)] < LatestLast

----------------------------------------------------------------------------
(* Properties of the network loader, checked under SpecLoad *)

\* The text "[[a,b], [c,d], ...]" of the digit pairs d[1],d[2]; d[3],d[4]; ...
RECURSIVE PairsText(_)
PairsText(d) ==
    IF Len(d) = 2 THEN <<"[", d[1], ",", d[2], "]">>
    ELSE <<"[", d[1], ",", d[2], "]", ",", " ">> \o PairsText(SubSeq(d, 3, Len(d)))

\* A coordinate string in the template's format, of one or two points.
WellFormedCoords(s) ==
    \E n \in {2, 4} : \E d \in [1..n -> DOMAIN DigitValue] :
        s = <<"[">> \o PairsText(d) \o <<"]">>

\* Some sheet holds a coords cell that is a string not in the template's format.
HasMalformedCoords ==
    \E sh \in Range(workbook) : \E i \in DOMAIN sh.rows :
        /\ "coords" \in sh.cols
        /\ sh.rows[i].coords.k = "str"
        /\ ~WellFormedCoords(sh.rows[i].coords.s)

\* Some sheet holds a coords string with a character no number, bracket or
\* separator is made of.
HasBadCoordsToken ==
    \E sh \in Range(workbook) : \E i \in DOMAIN sh.rows :
        /\ "coords" \in sh.cols
        /\ sh.rows[i].coords.k = "str"
        /\ \E j \in DOMAIN sh.rows[i].coords.s :
               sh.rows[i].coords.s[j] \notin DOMAIN DigitValue \cup {"[", "]", ",", " "}

\* Some sheet holds text that is no number in a column of `columns`.
HasTextIn(columns) ==
    \E sh \in Range(workbook) : \E i \in DOMAIN sh.rows : \E c \in sh.cols \cap columns :
        sh.rows[i][c].k = "str"

LoadFailed == loaded.raised /\ loaded.net = <<>>

\* C7: a malformed coordinate string, or a non-numeric value in a column of the
\* integer set or of the boolean set, fails the whole load: no network is returned.
C7_LoadFailsOnAnyBadValue ==
    (lpc = "done" /\ (HasMalformedCoords \/ HasTextIn(int_column) \/ HasTextIn(bool_column)))
        => LoadFailed

\* C7 as amended: a coordinate string with a non-numeric token, or a non-numeric
\* value in a column of the integer set, fails the whole load: no network is returned.
C7_LoadFailsOnBadIntOrToken ==
    (lpc = "done" /\ (HasBadCoordsToken \/ HasTextIn(int_column))) => LoadFailed

\* Witness of C7: a two-sheet workbook whose first sheet loads and whose second
\* sheet holds text in an integer column; the load failed.
C7_Witness ==
    /\ lpc = "done"
    /\ Len(workbook) = 2
    /\ LoadSheet(workbook[1]).ok /\ ~LoadSheet(workbook[1]).skip
    /\ \E i \in DOMAIN workbook[2].rows : \E c \in workbook[2].cols \cap int_column :
           workbook[2].rows[i][c].k = "str"
    /\ LoadFailed

\* The sheets whose table is part of the returned network.
LoadedSheets == {sh \in Range(workbook) : sh.name \in DOMAIN loaded.net}

\* Every integer-set field is an int64 and every boolean-set field a bool.
FieldsTyped ==
    \A sh \in LoadedSheets :
        LET df == loaded.net[sh.name]
        IN \A k \in DOMAIN df.rows : \A c \in df.cols :
               /\ c \in int_column => df.rows[k][c].k = "int64"
               /\ c \in bool_column => df.rows[k][c].k = "bool"

\* C8: after a successful load every integer-set field is integer-typed, every
\* boolean-set field boolean-typed, and every field of the default table that is
\* absent in the source (empty cell, or column not in the sheet) has its default.
C8_TypedAndAbsentDefaulted ==
    (lpc = "done" /\ ~loaded.raised) =>
        /\ FieldsTyped
        /\ \A sh \in LoadedSheets :
               LET df == loaded.net[sh.name]
               IN \A k \in DOMAIN df.rows : \A f \in DOMAIN default_values :
                      (f \notin sh.cols \/ sh.rows[df.index[k]][f] = NaN) =>
                          /\ f \in df.cols
                          /\ df.rows[k][f].v = default_values[f].v

\* C8 as amended: after a successful load every integer-set field is integer-typed,
\* every boolean-set field boolean-typed, and every field of the default table whose
\* column is in the sheet and whose cell is empty has its default value.
C8_TypedAndEmptyDefaulted ==
    (lpc = "done" /\ ~loaded.raised) =>
        /\ FieldsTyped
        /\ \A sh \in LoadedSheets :
               LET df == loaded.net[sh.name]
               IN /\ df.cols = sh.cols
                  /\ \A k \in DOMAIN df.rows : \A f \in DOMAIN default_values \cap sh.cols :
                         sh.rows[df.index[k]][f] = NaN =>
                             df.rows[k][f].v = default_values[f].v

\* Witness of C8: a loaded table with an empty profile_mapping cell in its source.
C8_Witness ==
    /\ lpc = "done"
    /\ ~loaded.raised
    /\ \E sh \in LoadedSheets : \E k \in DOMAIN loaded.net[sh.name].rows :
           /\ "profile_mapping" \in sh.cols
           /\ sh.rows[loaded.net[sh.name].index[k]].profile_mapping = NaN

----------------------------------------------------------------------------
(* Properties of the runner, checked under SpecRun *)

\* C5: when an output name is given and a step of persistence fails (folder
\* creation, opening the writer, writing a sheet), run_time_simulation does not
\* raise, logs exactly one error, and returns the result tables it built.
C5_PersistenceFailureSwallowed ==
    /\ results_df # <<>> => rpc # "raised"
    /\ (output_filename # "" /\ errors > 0) => rpc \in {"return", "returned"}
    /\ (rpc = "returned" /\ output_filename # "" /\ errors > 0) =>
           /\ errors = 1
           /\ returned = results_df
           /\ DOMAIN returned = Range(output_writer)
           /\ \A key \in DOMAIN returned : returned[key].rows = steps_run

\* Witness of C5: a run with an output name returned after a persistence failure.
C5_Witness ==
    rpc = "returned" /\ output_filename # "" /\ errors = 1 /\ Len(steps_run) > 1

\* C6: exactly len(common time index) time steps run, numbered 0..len-1 in
\* increasing order, and every returned result table (every logged key except
\* "Parameters") has one row per timestamp of the common time index.
C6_OneStepAndRowPerTimestamp ==
    /\ rpc # "raised"
    /\ \A i \in DOMAIN steps_run : steps_run[i] = i - 1
    /\ rpc \in {"makedirs", "open", "write", "return", "returned"} =>
           Len(steps_run) = Len(time_index)
    /\ rpc = "returned" =>
           /\ DOMAIN returned = DOMAIN output \ {"Parameters"}
           /\ \A key \in DOMAIN returned :
                  /\ returned[key].index = time_index
                  /\ Len(returned[key].rows) = Len(time_index)

\* Witness of C6: a returned run over the longest time index with five result tables.
C6_Witness ==
    /\ rpc = "returned"
    /\ Len(time_index) = MaxSteps
    /\ Len(steps_run) = MaxSteps
    /\ Cardinality(DOMAIN returned) = 5

====
